---------------------------- MODULE Spec2Model ----------------------------
(***************************************************************************)
(* Enneagram assessment: scoring, classification, wing derivation,        *)
(* validity statistics, the quiz submission handler, team statistics,     *)
(* stored and transported results, and the team page with its cache.      *)
(*                                                                         *)
(* Texts (Python str) are sequences of one-character strings.  Floats are *)
(* exact rationals [num, den] with den > 0.  A Python dict with a fixed   *)
(* key set is a function; an optional value uses the token None.          *)
(***************************************************************************)
EXTENDS Integers, Sequences, FiniteSets, TLC

VARIABLES
    bank,   \* the question bank load_questions() returns (bank order)
    op,     \* the operation that ran last
    arg,    \* its inputs
    ret,    \* what it returned or raised
    sheet,  \* rows the result logger appended to the spreadsheet
    team_cache, \* api/quiz.py team_cache: the entries in insertion order
    now,    \* the clock datetime.now() reads, in seconds
    settings    \* the settings the team page reads

vars == <<bank, op, arg, ret, sheet, team_cache, now, settings>>

\* Optional[X]: None is the empty set and a present value x is {x}
None == {}
Some(x) == {x}
The(o) == CHOOSE x \in o : TRUE

\* the process before any team page was asked for: team_cache = {}
CacheIdle ==
    /\ team_cache = <<>>
    /\ now = 0
    /\ settings = [disable_caching |-> FALSE]

(***************************************************************************)
(* Bounds of the model.                                                    *)
(***************************************************************************)
MaxQ == 2          \* questions in a bank
MaxScore == 2      \* largest total in a profile given to determine_top_type
MaxWing == 1       \* largest total in a profile given to calculate_wings
MaxVals == 4       \* longest list given to calculate_validity_stats
MaxRaw == 8        \* reverse_score is tried on -MaxRaw..MaxRaw
MaxOver == 1       \* texts are tried up to this far beyond a length limit
MaxShort == 2      \* every text up to this length is tried
MaxCalls == 3      \* calls of the pipeline made one after another
MaxRows == 3       \* team rows tried in every order and with every kind of value
MaxTeam == 9       \* members of a team spread over the nine categories
MaxBig == 14       \* members of a team spread over three categories

(***************************************************************************)
(* Program constants.                                                      *)
(***************************************************************************)
NameMaxLength == 100    \* settings.name_max_length
TeamMaxLength == 20     \* sanitize_input(team, 20); validate_team len(v) > 20
TeamMinLength == 3      \* validate_team len(v) < 3
LikertMin == 1          \* reverse_score: value < 1
LikertMax == 5          \* reverse_score: value > 5
ReverseBase == 6        \* reverse_score: 6 - value
NumTypes == 9           \* range(1, 10)

Types == 1..NumTypes

(***************************************************************************)
(* Characters and texts.                                                   *)
(***************************************************************************)
LowerChars == {"a", "b", "z"}
UpperChars == {"A", "Z"}
DigitChars == {"0", "1", "2", "3", "4", "5", "6", "7", "8", "9"}
SpaceChars == {" ", "\n"}
DangerousChars == {"<", ">", "\"", "'", "&", "NUL"}

Rep(c, n) == [i \in 1..n |-> c]

\* str.lower() on one character
LowerChar(c) ==
    CASE c = "A" -> "a"
      [] c = "Z" -> "z"
      [] OTHER -> c

\* str.lower()
Lower(t) == [i \in 1..Len(t) |-> LowerChar(t[i])]

\* str.strip(): what lies between the first and the last character that is
\* not whitespace
Strip(t) ==
    LET kept == {i \in 1..Len(t) : t[i] \notin SpaceChars}
    IN  IF kept = {} THEN <<>>
        ELSE SubSeq(t, CHOOSE i \in kept : \A j \in kept : i <= j,
                       CHOOSE i \in kept : \A j \in kept : j <= i)

\* text[:n]
Truncate(t, n) == IF Len(t) <= n THEN t ELSE SubSeq(t, 1, n)

\* text.replace(char, '') for every char of a set
RemoveChars(t, cs) == SelectSeq(t, LAMBDA c : c \notin cs)

AllIn(t, cs) == \A i \in 1..Len(t) : t[i] \in cs

\* re.match(r'^[cs]+$', t): Python's $ also matches before one final newline
ReMatchPlus(t, cs) ==
    \/ t # <<>> /\ AllIn(t, cs)
    \/ /\ Len(t) >= 2
       /\ t[Len(t)] = "\n"
       /\ AllIn(SubSeq(t, 1, Len(t) - 1), cs)

SanitizeInput(text, max_length) ==
    IF text = <<>> THEN <<>>
    ELSE RemoveChars(Truncate(Strip(text), max_length), DangerousChars)


(***************************************************************************)
(* Exact arithmetic for the float results.                                 *)
(***************************************************************************)
Rat(n, d) == [num |-> n, den |-> d]
RatEq(a, b) == a.num * b.den = b.num * a.den
RatLeq(a, b) == a.num * b.den <= b.num * a.den
\* x ** 0.5 of a non-negative rational, kept as the number it is the root of
Root(x) == [root_of |-> x]

RECURSIVE SumSeq(_)
SumSeq(s) == IF s = <<>> THEN 0 ELSE Head(s) + SumSeq(Tail(s))

Raise(exc, msg) == [ok |-> FALSE, exc |-> exc, msg |-> msg]
Return(v) == [ok |-> TRUE, value |-> v]

(***************************************************************************)
(* QuizService                                                             *)
(***************************************************************************)
\* mutant: no clamp of a value outside 1..5
ReverseScoreUnclamped(value) == ReverseBase - value

ReverseScore(value) ==
    IF value < LikertMin \/ value > LikertMax THEN 0 ELSE ReverseBase - value

\* ValidityStats(mean=..., sd=...): mean is a Field(ge=0, le=5), sd a Field(ge=0)
ValidityStats(mean, sd) ==
    IF RatLeq(Rat(0, 1), mean) /\ RatLeq(mean, Rat(LikertMax, 1))
    THEN Return([mean |-> mean, sd |-> sd])
    ELSE Raise("ValueError", <<"ValidityStats", "mean">>)

\* mutant: the sample form, dividing the squared deviations by n - 1
CalculateValidityStatsSample(all_values) ==
    IF all_values = <<>>
    THEN ValidityStats(Rat(0, 1), Root(Rat(0, 1)))
    ELSE LET n == Len(all_values)
             total == SumSeq(all_values)
             squares == [i \in 1..n |->
                            (n * all_values[i] - total) * (n * all_values[i] - total)]
             variance == IF n = 1 THEN Rat(0, 1)
                         ELSE Rat(SumSeq(squares), n * n * (n - 1))
         IN  ValidityStats(Rat(total, n), Root(variance))

CalculateValidityStats(all_values) ==
    IF all_values = <<>>
    THEN ValidityStats(Rat(0, 1), Root(Rat(0, 1)))
    ELSE LET n == Len(all_values)
             total == SumSeq(all_values)
             \* (x - total/n) ** 2 = (n*x - total)^2 / n^2
             squares == [i \in 1..n |->
                            (n * all_values[i] - total) * (n * all_values[i] - total)]
             variance == Rat(SumSeq(squares), n * n * n)
         IN  ValidityStats(Rat(total, n), Root(variance))

\* quiz_answers.get(key, default); the key "q_<id>" is the question id
Get(d, k, default) == IF k \in DOMAIN d THEN d[k] ELSE default

RECURSIVE AccumulateScores(_, _, _)
AccumulateScores(questions, quiz_answers, by_type) ==
    IF questions = <<>> THEN by_type
    ELSE LET question == Head(questions)
             raw_value == Get(quiz_answers, question.id, 0)
             score_value == IF question.reverse THEN ReverseScore(raw_value)
                            ELSE raw_value
         IN  AccumulateScores(Tail(questions), quiz_answers,
                 [by_type EXCEPT ![question.type] = @ + score_value])

\* mutant: the reverse correction is applied to every question
CalculateTypeScoresAllReversed(questions, quiz_answers) ==
    AccumulateScores([i \in 1..Len(questions) |->
                         [questions[i] EXCEPT !.reverse = TRUE]],
                     quiz_answers, [t \in Types |-> 0])

\* mutant: by_type starts empty and gets a key when a question adds to it
CalculateTypeScoresSparse(questions, quiz_answers) ==
    LET by_type == AccumulateScores(questions, quiz_answers, [t \in Types |-> 0])
    IN  [t \in {questions[i].type : i \in 1..Len(questions)} |-> by_type[t]]

CalculateTypeScores(questions, quiz_answers) ==
    AccumulateScores(questions, quiz_answers, [t \in Types |-> 0])

\* mutant: the least element instead of the greatest
MaxOfLeast(S) == CHOOSE m \in S : \A x \in S : m <= x

MaxOf(S) == CHOOSE m \in S : \A x \in S : x <= m

TypeList == [i \in Types |-> i]

Centers(type_scores) ==
    [gut   |-> type_scores[8] + type_scores[9] + type_scores[1],
     heart |-> type_scores[2] + type_scores[3] + type_scores[4],
     head  |-> type_scores[5] + type_scores[6] + type_scores[7]]

CenterMap(t) ==
    CASE t \in {1, 8, 9} -> "gut"
      [] t \in {2, 3, 4} -> "heart"
      [] t \in {5, 6, 7} -> "head"

\* mutant: >= keeps the last of the tied categories with the greatest center
RECURSIVE ScanTiedKeepLast(_, _, _, _)
ScanTiedKeepLast(tied, centers, best_type, best_center_score) ==
    IF tied = <<>> THEN best_type
    ELSE LET t == Head(tied)
             c == centers[CenterMap(t)]
         IN  IF c >= best_center_score
             THEN ScanTiedKeepLast(Tail(tied), centers, Some(t), c)
             ELSE ScanTiedKeepLast(Tail(tied), centers, best_type, best_center_score)

\* for t in sorted(tied_types): keep the first strictly greater center score
RECURSIVE ScanTied(_, _, _, _)
ScanTied(tied, centers, best_type, best_center_score) ==
    IF tied = <<>> THEN best_type
    ELSE LET t == Head(tied)
             c == centers[CenterMap(t)]
         IN  IF c > best_center_score
             THEN ScanTied(Tail(tied), centers, Some(t), c)
             ELSE ScanTied(Tail(tied), centers, best_type, best_center_score)

\* mutant: best_center_score starts at 0, so a center total of 0 wins nothing
DetermineTopTypeFromZero(type_scores) ==
    LET max_score == MaxOf({type_scores[t] : t \in Types})
        tied_types == SelectSeq(TypeList, LAMBDA t : type_scores[t] = max_score)
    IN  IF Len(tied_types) = 1
        THEN [top_type |-> Some(tied_types[1]), tied_types |-> tied_types]
        ELSE [top_type |-> ScanTied(tied_types, Centers(type_scores), None, 0),
              tied_types |-> tied_types]

\* mutant: only the first category at the maximum is listed as tied
DetermineTopTypeFirstOnly(type_scores) ==
    LET max_score == MaxOf({type_scores[t] : t \in Types})
        tied_types == SelectSeq(TypeList, LAMBDA t : type_scores[t] = max_score)
    IN  [top_type |-> Some(tied_types[1]), tied_types |-> <<tied_types[1]>>]

\* returns (top_type, tied_types); best_type starts as None
DetermineTopType(type_scores) ==
    LET max_score == MaxOf({type_scores[t] : t \in Types})
        tied_types == SelectSeq(TypeList, LAMBDA t : type_scores[t] = max_score)
    IN  IF Len(tied_types) = 1
        THEN [top_type |-> Some(tied_types[1]), tied_types |-> tied_types]
        ELSE [top_type |-> ScanTied(tied_types, Centers(type_scores), None, -1),
              tied_types |-> tied_types]

WingMap(t) ==
    CASE t = 1 -> <<9, 2>>
      [] t = 2 -> <<1, 3>>
      [] t = 3 -> <<2, 4>>
      [] t = 4 -> <<3, 5>>
      [] t = 5 -> <<4, 6>>
      [] t = 6 -> <<5, 7>>
      [] t = 7 -> <<6, 8>>
      [] t = 8 -> <<7, 9>>
      [] t = 9 -> <<8, 1>>
      [] OTHER -> <<>>

\* mutant: > lets the second neighbour win equal scores
CalculateWingsRightOnTie(top_type, type_scores) ==
    LET wings == WingMap(top_type) IN
    IF wings = <<>> THEN [wing |-> None, wing_score |-> 0]
    ELSE LET left_score == Get(type_scores, wings[1], 0)
             right_score == Get(type_scores, wings[2], 0)
         IN  IF left_score > right_score
             THEN [wing |-> Some(wings[1]), wing_score |-> left_score]
             ELSE [wing |-> Some(wings[2]), wing_score |-> right_score]

CalculateWings(top_type, type_scores) ==
    LET wings == WingMap(top_type) IN
    IF wings = <<>> THEN [wing |-> None, wing_score |-> 0]
    ELSE LET left_score == Get(type_scores, wings[1], 0)
             right_score == Get(type_scores, wings[2], 0)
         IN  IF left_score >= right_score
             THEN [wing |-> Some(wings[1]), wing_score |-> left_score]
             ELSE [wing |-> Some(wings[2]), wing_score |-> right_score]


\* EnneagramScores.from_dict: the object with the fields type_1..type_9,
\* every one a Field(ge=0)
EnneagramScoresFromDict(scores_dict) ==
    IF \E t \in Types : Get(scores_dict, t, 0) < 0
    THEN Raise("ValueError", <<"EnneagramScores", "ge">>)
    ELSE Return([type_1 |-> Get(scores_dict, 1, 0),
                 type_2 |-> Get(scores_dict, 2, 0),
                 type_3 |-> Get(scores_dict, 3, 0),
                 type_4 |-> Get(scores_dict, 4, 0),
                 type_5 |-> Get(scores_dict, 5, 0),
                 type_6 |-> Get(scores_dict, 6, 0),
                 type_7 |-> Get(scores_dict, 7, 0),
                 type_8 |-> Get(scores_dict, 8, 0),
                 type_9 |-> Get(scores_dict, 9, 0)])

\* mutant: the values of the keys 1 and 9 change places
ToDictSwapped(self) ==
    <<self.type_9, self.type_2, self.type_3, self.type_4, self.type_5,
      self.type_6, self.type_7, self.type_8, self.type_1>>

\* EnneagramScores.to_dict: the dictionary with the integer keys 1..9
ToDict(self) ==
    <<self.type_1, self.type_2, self.type_3, self.type_4, self.type_5,
      self.type_6, self.type_7, self.type_8, self.type_9>>

\* mutant: the generated token is kept as a field of the Result
EnneagramResultWithToken(name, top_type, scores, validity, delete_token, tied_types) ==
    IF top_type = None \/ The(top_type) \notin Types
    THEN Raise("ValueError", <<"EnneagramResult", "top_type">>)
    ELSE Return([name |-> name,
                 team |-> None,
                 top_type |-> The(top_type),
                 scores |-> scores,
                 validity |-> validity,
                 delete_token |-> delete_token,
                 tied_types |-> tied_types])

\* EnneagramResult(...): top_type is a Field(ge=1, le=9); team defaults to
\* None; delete_token is no field of the schema and is dropped
EnneagramResult(name, top_type, scores, validity, delete_token, tied_types) ==
    IF top_type = None \/ The(top_type) \notin Types
    THEN Raise("ValueError", <<"EnneagramResult", "top_type">>)
    ELSE Return([name |-> name,
                 team |-> None,
                 top_type |-> The(top_type),
                 scores |-> scores,
                 validity |-> validity,
                 tied_types |-> tied_types])

\* mutant: the missing questions, last in bank order first
RECURSIVE MissingQuestionsLastFirst(_, _)
MissingQuestionsLastFirst(questions, quiz_answers) ==
    IF questions = <<>> THEN <<>>
    ELSE LET rest == MissingQuestionsLastFirst(Tail(questions), quiz_answers)
         IN  IF Head(questions).id \notin DOMAIN quiz_answers
             THEN Append(rest, Head(questions))
             ELSE rest

\* the questions, in bank order, that quiz_answers has no entry for
MissingQuestions(questions, quiz_answers) ==
    SelectSeq(questions, LAMBDA q : q.id \notin DOMAIN quiz_answers)

\* The outcome carries, beside the value returned or the exception raised,
\* the calls made on the way (calls), in order.
ProcessQuizSubmission(name, quiz_answers, questions, delete_token) ==
    LET clean_name == SanitizeInput(name, NameMaxLength)
        missing == MissingQuestions(questions, quiz_answers)
        all_values == [i \in 1..Len(questions) |-> quiz_answers[questions[i].id]]
        type_scores == CalculateTypeScores(questions, quiz_answers)
        top == DetermineTopType(type_scores)
        validity == CalculateValidityStats(all_values)
        scores == EnneagramScoresFromDict(type_scores)
        result == EnneagramResult(clean_name, top.top_type, scores.value,
                      validity.value, delete_token,
                      IF Len(top.tied_types) > 1 THEN Some(top.tied_types)
                      ELSE None)
        With(r, calls) == [c \in {"calls"} \cup DOMAIN r |->
                              IF c = "calls" THEN calls ELSE r[c]]
    IN  IF missing # <<>>
        THEN With(Raise("ValueError",
                        <<"Missing answer for question", missing[1].id>>),
                  <<"sanitize_input", "load_questions">>)
        ELSE IF ~validity.ok
        THEN With(validity,
                  <<"sanitize_input", "load_questions", "calculate_type_scores",
                    "determine_top_type", "calculate_validity_stats">>)
        ELSE IF ~scores.ok
        THEN With(scores,
                  <<"sanitize_input", "load_questions", "calculate_type_scores",
                    "determine_top_type", "calculate_validity_stats",
                    "generate_delete_token">>)
        ELSE With(result,
                  <<"sanitize_input", "load_questions", "calculate_type_scores",
                    "determine_top_type", "calculate_validity_stats",
                    "generate_delete_token", "EnneagramResult">>)


(***************************************************************************)
(* models/schemas.py: QuizSubmission                                       *)
(***************************************************************************)
NameChars == LowerChars \cup UpperChars \cup DigitChars \cup SpaceChars \cup {"_", "-"}
TeamChars == LowerChars \cup DigitChars
Yes == <<"y", "e", "s">>

\* name: Field(min_length=1, max_length=...), then validate_name on a value
\* that passed the Field
ValidateName(v) ==
    IF Len(v) < 1 THEN Raise("ValueError", <<"name", "min_length">>)
    ELSE IF Len(v) > NameMaxLength THEN Raise("ValueError", <<"name", "max_length">>)
    ELSE IF ~ReMatchPlus(Strip(v), NameChars)
    THEN Raise("ValueError", <<"name", "characters">>)
    ELSE Return(Strip(v))

ValidateTeam(team) ==
    IF team = None \/ The(team) = <<>> THEN Return(None)
    ELSE LET v == Lower(Strip(The(team))) IN
         IF ~ReMatchPlus(v, TeamChars)
         THEN Raise("ValueError", <<"team", "characters">>)
         ELSE IF Len(v) < TeamMinLength \/ Len(v) > TeamMaxLength
         THEN Raise("ValueError", <<"team", "length">>)
         ELSE Return(Some(v))

ValidateConsent(consent) ==
    IF consent = Yes THEN Return(consent)
    ELSE Raise("ValueError", <<"consent", "pattern">>)

\* QuizSubmission(name=, team=, consent=): the model or one ValidationError
\* listing every field that failed
QuizSubmission(name, team, consent) ==
    LET n == ValidateName(name)
        t == ValidateTeam(team)
        c == ValidateConsent(consent)
        errors == (IF n.ok THEN {} ELSE {n.msg})
                  \cup (IF t.ok THEN {} ELSE {t.msg})
                  \cup (IF c.ok THEN {} ELSE {c.msg})
    IN  IF errors # {} THEN Raise("ValueError", errors)
        ELSE Return([name |-> n.value, team |-> t.value, consent |-> c.value])

(***************************************************************************)
(* int(value) of a form field                                              *)
(***************************************************************************)
DigitValue(c) ==
    CASE c = "0" -> 0 [] c = "1" -> 1 [] c = "2" -> 2 [] c = "3" -> 3
      [] c = "4" -> 4 [] c = "5" -> 5 [] c = "6" -> 6 [] c = "7" -> 7
      [] c = "8" -> 8 [] c = "9" -> 9

RECURSIVE DigitsValue(_, _)
DigitsValue(t, acc) ==
    IF t = <<>> THEN acc ELSE DigitsValue(Tail(t), 10 * acc + DigitValue(Head(t)))

ParseInt(text) ==
    LET s == Strip(text)
        signed == s # <<>> /\ Head(s) \in {"-", "+"}
        digits == IF signed THEN Tail(s) ELSE s
    IN  IF digits = <<>> \/ ~AllIn(digits, DigitChars)
        THEN Raise("ValueError", <<"invalid literal for int()">>)
        ELSE IF signed /\ Head(s) = "-" THEN Return(0 - DigitsValue(digits, 0))
        ELSE Return(DigitsValue(digits, 0))


(***************************************************************************)
(* str(), int() and JSON.  A str is never equal to an int: str(n) is       *)
(* written as the number StrBase + n, which no profile, key or id of the   *)
(* model reaches, and int() takes it back.  A JSON text is a record: an    *)
(* object with its members in order, or text that is no JSON.              *)
(***************************************************************************)
StrBase == 100

Str(n) == StrBase + n

IntOfStr(s) == s - StrBase

\* the members of the JSON object of a dict with int keys, in the order of
\* the dict: json.dumps writes every key as a str
JsonMembers(d) == [i \in DOMAIN d |-> <<Str(i), d[i]>>]

\* the dict json.loads builds from the members of an object: str keys, a
\* repeated key keeps its last value
JsonObject(members) ==
    LET keys == {members[i][1] : i \in DOMAIN members}
        LastAt(k) == CHOOSE i \in DOMAIN members :
                        /\ members[i][1] = k
                        /\ \A j \in DOMAIN members : members[j][1] = k => j <= i
    IN  [k \in keys |-> members[LastAt(k)][2]]

\* json.dumps(result.scores.to_dict())
JsonDumps(d) == [members |-> JsonMembers(d)]

\* json.loads(scores_json)
JsonLoads(text) ==
    IF "members" \in DOMAIN text THEN Return(JsonObject(text.members))
    ELSE Raise("JSONDecodeError", <<"Expecting value">>)

\* submit_quiz: "Encode result data for URL"
ResultData(result) ==
    [name |-> result.name,
     team |-> result.team,
     top_type |-> result.top_type,
     scores |-> ToDict(result.scores),
     validity |-> [mean |-> result.validity.mean, sd |-> result.validity.sd],
     tied_types |-> result.tied_types]

\* json.dumps(result_data): the nested scores dict becomes an object with
\* str keys
JsonDumpsResult(result_data) ==
    [object |-> [result_data EXCEPT !.scores = JsonMembers(@)]]

\* json.loads(decoded_data)
JsonLoadsResult(text) ==
    IF "object" \notin DOMAIN text
    THEN Raise("JSONDecodeError", <<"Expecting value">>)
    ELSE IF "scores" \in DOMAIN text.object
    THEN Return([text.object EXCEPT !.scores = JsonObject(@)])
    ELSE Return(text.object)

UrlsafeB64Encode(text) == [b64 |-> text]

UrlsafeB64Decode(data) ==
    IF "b64" \in DOMAIN data THEN Return(data.b64)
    ELSE Raise("binascii.Error", <<"Incorrect padding">>)

\* submit_quiz: "Base64 encode the JSON to make it URL-safe"
EncodedData(result_data) == UrlsafeB64Encode(JsonDumpsResult(result_data))

(***************************************************************************)
(* api/quiz.py: submit_quiz                                                *)
(***************************************************************************)
ErrorResponse(message, status_code) ==
    [kind |-> "error", status_code |-> status_code, message |-> message]

RedirectResponse(result_data) ==
    [kind |-> "redirect", status_code |-> 303, data |-> result_data,
     url |-> [path |-> "/results", data |-> EncodedData(result_data)]]

\* def process_quiz_submission(self, name, quiz_answers)
ProcessParams == <<"name", "quiz_answers">>

\* a call of the bound method with positional arguments: Python raises
\* TypeError unless they are as many as the parameters (none has a default)
CallProcess(args, questions, delete_token) ==
    IF Len(args) # Len(ProcessParams)
    THEN [ok |-> FALSE, exc |-> "TypeError",
          msg |-> <<"process_quiz_submission() positional arguments",
                    Len(ProcessParams) + 1, Len(args) + 1>>,
          calls |-> <<>>]
    ELSE ProcessQuizSubmission(args[1], args[2], questions, delete_token)

\* sheets_service.log_quiz_result: the row it appends
SheetRow(result) ==
    [name |-> result.name,
     team |-> IF result.team = None \/ The(result.team) = <<>> THEN <<"N", "A">>
              ELSE The(result.team),
     top_type |-> result.top_type,
     scores |-> LET scores_dict == ToDict(result.scores)
                IN  [i \in Types |-> Get(scores_dict, i, 0)],
     tied_types |-> result.tied_types]

LoggerOutcomes == {"True", "False", "raise"}

\* the key ids of the form, in the order the form lists them (ascending)
RECURSIVE FormKeys(_)
FormKeys(S) ==
    IF S = {} THEN <<>>
    ELSE LET k == CHOOSE x \in S : \A y \in S : x <= y
         IN  <<k>> \o FormKeys(S \ {k})

\* "Sanitize inputs" and "Validate submission using schema"
SanitizedSubmission(name_in, consent, team_in) ==
    LET name == SanitizeInput(Strip(name_in), NameMaxLength)
        team == IF team_in # None /\ The(team_in) # <<>>
                THEN Some(SanitizeInput(Strip(The(team_in)), TeamMaxLength))
                ELSE None
    IN  QuizSubmission(name, team, consent)

\* The whole handler.  form maps the id of every q_<id> field to its text;
\* logger is what log_quiz_result will do if it is called.  The outcome is
\* the response, the rows appended to the sheet, and the steps reached.
SubmitQuiz(name_in, consent, team_in, form, questions, logger, delete_token) ==
    LET submission == SanitizedSubmission(name_in, consent, team_in)
        keys == FormKeys(DOMAIN form)
        bad_keys == SelectSeq(keys, LAMBDA k : ~ParseInt(form[k]).ok)
        quiz_answers == [k \in DOMAIN form |-> ParseInt(form[k]).value]
        missing == MissingQuestions(questions, quiz_answers)
        processed == CallProcess(<<submission.value.name, quiz_answers,
                                   submission.value.team>>,
                                 questions, delete_token)
        result == processed.value
        result_data == ResultData(result)
        Out(response, rows, steps, calls) ==
            [response |-> response, rows |-> rows, steps |-> steps,
             calls |-> calls]
    IN  IF ~submission.ok
        THEN Out(ErrorResponse(<<"validation", submission.msg>>, 400),
                 <<>>, <<"validate">>, <<>>)
        ELSE IF bad_keys # <<>>
        THEN Out(ErrorResponse(<<"Invalid response for", bad_keys[1]>>, 400),
                 <<>>, <<"validate", "form">>, <<>>)
        ELSE IF missing # <<>>
        THEN Out(ErrorResponse(<<"Missing answer for question", missing[1].id>>, 400),
                 <<>>, <<"validate", "form", "answers">>, <<>>)
        ELSE IF processed.ok
        THEN Out(RedirectResponse(result_data),
                 IF logger = "True" THEN <<SheetRow(result)>> ELSE <<>>,
                 <<"validate", "form", "answers", "process", "log", "redirect">>,
                 processed.calls)
        ELSE IF processed.exc = "ValueError"
        THEN Out(ErrorResponse(<<"Error processing quiz results.">>, 500),
                 <<>>, <<"validate", "form", "answers", "process">>,
                 processed.calls)
        ELSE Out(ErrorResponse(<<"An unexpected error occurred.">>, 500),
                 <<>>, <<"validate", "form", "answers", "process">>,
                 processed.calls)


(***************************************************************************)
(* Classifier and wing resolver applied to enumerated score profiles.      *)
(***************************************************************************)
Profiles(max) == [Types -> 0..max]

InitClassify ==
    /\ bank = <<>>
    /\ op = "init"
    /\ ret = None
    /\ sheet = <<>>
    /\ CacheIdle
    /\ \/ arg \in [fn : {"determine_top_type"}, type_scores : Profiles(MaxScore)]
       \/ arg \in [fn : {"calculate_wings"}, top_type : Types,
                   type_scores : Profiles(MaxWing)]

Classify ==
    /\ op = "init"
    /\ arg.fn = "determine_top_type"
    /\ op' = "determine_top_type"
    /\ ret' = DetermineTopType(arg.type_scores)
    /\ UNCHANGED <<bank, arg, sheet, team_cache, now, settings>>

Wings ==
    /\ op = "init"
    /\ arg.fn = "calculate_wings"
    /\ op' = "calculate_wings"
    /\ ret' = CalculateWings(arg.top_type, arg.type_scores)
    /\ UNCHANGED <<bank, arg, sheet, team_cache, now, settings>>

NextClassify == Classify \/ Wings

SpecClassify == InitClassify /\ [][NextClassify]_vars


(***************************************************************************)
(* Properties of the classifier and the wing resolver (SpecClassify).      *)
(***************************************************************************)
RECURSIVE SumOver(_, _)
SumOver(f, S) ==
    IF S = {} THEN 0
    ELSE LET x == CHOOSE y \in S : TRUE IN f[x] + SumOver(f, S \ {x})

Clusters == {{8, 9, 1}, {2, 3, 4}, {5, 6, 7}}
ClusterTotal(p, t) == SumOver(p, CHOOSE C \in Clusters : t \in C)
MaxCategories(p) == {t \in Types : \A u \in Types : p[u] <= p[t]}
BestClustered(p) ==
    {t \in MaxCategories(p) :
        \A u \in MaxCategories(p) : ClusterTotal(p, u) <= ClusterTotal(p, t)}
Least(S) == CHOOSE x \in S : \A y \in S : x <= y
Range(s) == {s[i] : i \in DOMAIN s}

Classified == op = "determine_top_type"

\* C1: when several categories hold the maximum score, the top category is
\* the tied category whose cluster total (over the whole profile) is
\* greatest, and the lowest-numbered one when several share that total.
C1_TieBreakByCluster ==
    (Classified /\ Cardinality(MaxCategories(arg.type_scores)) > 1)
        => ret.top_type = Some(Least(BestClustered(arg.type_scores)))

\* a tie that the cluster totals decide against the lowest tied category,
\* by a category outside the tie
C1_Witness ==
    /\ Classified
    /\ MaxCategories(arg.type_scores) = {1, 5}
    /\ arg.type_scores[6] = 1
    /\ ret.top_type = Some(5)

\* C2: the tied list holds exactly the categories whose score is the maximum
\* of the nine, and a single such category is the top category.
C2_TiedIsArgmax ==
    Classified =>
        /\ Range(ret.tied_types) = MaxCategories(arg.type_scores)
        /\ Len(ret.tied_types) = Cardinality(MaxCategories(arg.type_scores))
        /\ Cardinality(MaxCategories(arg.type_scores)) = 1
               => ret.top_type = MaxCategories(arg.type_scores)

C2_Witness ==
    /\ Classified
    /\ MaxCategories(arg.type_scores) = {7}
    /\ ret.top_type = Some(7)
    /\ ret.tied_types = <<7>>

RingBefore(t) == IF t = 1 THEN NumTypes ELSE t - 1
RingAfter(t) == IF t = NumTypes THEN 1 ELSE t + 1

WingComputed == op = "calculate_wings"

\* C4: the wing is the ring neighbour of the top category with the strictly
\* higher score, the first-listed neighbour (the one before it on the ring)
\* on equal scores, and wing_score is that neighbour's score.
C4_WingIsHigherNeighbour ==
    WingComputed =>
        LET p == arg.type_scores
            before == RingBefore(arg.top_type)
            after == RingAfter(arg.top_type)
            expected == IF p[after] > p[before] THEN after ELSE before
        IN  /\ ret.wing = Some(expected)
            /\ ret.wing_score = p[expected]

\* top 5 with equal non-zero neighbour scores gives 4
C4_Witness ==
    /\ WingComputed
    /\ arg.top_type = 5
    /\ arg.type_scores[4] = 1
    /\ arg.type_scores[6] = 1
    /\ ret.wing = Some(4)


(***************************************************************************)
(* Question banks and answer sets.                                         *)
(***************************************************************************)
QuestionTypes == {1, 2, 9}

\* banks of n questions whose ids 1..n ascend or descend in bank order
BanksOf(n) ==
    {[i \in 1..n |-> [id |-> IF asc THEN i ELSE n + 1 - i,
                      type |-> f[i].type,
                      reverse |-> f[i].reverse]] :
        f \in [1..n -> [type : QuestionTypes, reverse : BOOLEAN]],
        asc \in BOOLEAN}

Banks == UNION {BanksOf(n) : n \in 0..MaxQ}

\* raw answer values: 1..5 and two values beyond either end
RawValues == (LikertMin - 2)..(LikertMax + 2)

\* quiz_answers dicts: some of the keys q_1..q_MaxQ, each with an integer
AnswerSets == UNION {[K -> RawValues] : K \in SUBSET (1..MaxQ)}

RECURSIVE SeqsUpTo(_, _)
SeqsUpTo(S, n) ==
    IF n = 0 THEN {<<>>}
    ELSE LET shorter == SeqsUpTo(S, n - 1)
         IN  shorter \cup {Append(q, x) : q \in {r \in shorter : Len(r) = n - 1},
                                          x \in S}

ValueLists == SeqsUpTo((LikertMin - 1)..(LikertMax + 1), MaxVals)

Tokens == {"token1", "token2"}

InitProcessCalls(names, tokens) ==
    /\ bank \in Banks
    /\ arg \in [fn : {"process_quiz_submission"}, name : names,
                quiz_answers : AnswerSets, delete_token : tokens]

(***************************************************************************)
(* The service functions called directly.                                  *)
(***************************************************************************)
Scores ==
    /\ op = "init"
    /\ arg.fn = "calculate_type_scores"
    /\ op' = "calculate_type_scores"
    /\ ret' = CalculateTypeScores(bank, arg.quiz_answers)
    /\ UNCHANGED <<bank, arg, sheet, team_cache, now, settings>>

Reverse ==
    /\ op = "init"
    /\ arg.fn = "reverse_score"
    /\ op' = "reverse_score"
    /\ ret' = ReverseScore(arg.value)
    /\ UNCHANGED <<bank, arg, sheet, team_cache, now, settings>>

Validity ==
    /\ op = "init"
    /\ arg.fn = "calculate_validity_stats"
    /\ op' = "calculate_validity_stats"
    /\ ret' = CalculateValidityStats(arg.all_values)
    /\ UNCHANGED <<bank, arg, sheet, team_cache, now, settings>>

Process ==
    /\ op = "init"
    /\ arg.fn = "process_quiz_submission"
    /\ op' = "process_quiz_submission"
    /\ ret' = ProcessQuizSubmission(arg.name, arg.quiz_answers, bank,
                                    arg.delete_token)
    /\ UNCHANGED <<bank, arg, sheet, team_cache, now, settings>>

InitScorer ==
    /\ op = "init"
    /\ ret = None
    /\ sheet = <<>>
    /\ CacheIdle
    /\ \/ /\ bank \in Banks
          /\ arg \in [fn : {"calculate_type_scores"}, quiz_answers : AnswerSets]
       \/ /\ bank = <<>>
          /\ arg \in [fn : {"reverse_score"}, value : (0 - MaxRaw)..MaxRaw]
       \/ /\ bank = <<>>
          /\ arg \in [fn : {"calculate_validity_stats"}, all_values : ValueLists]
       \/ InitProcessCalls({<<"A", "b">>}, {"token1"})

NextScorer == Scores \/ Reverse \/ Validity \/ Process

SpecScorer == InitScorer /\ [][NextScorer]_vars


(***************************************************************************)
(* Properties of the scorer and the validity analyzer (SpecScorer).        *)
(***************************************************************************)
Scored == op = "calculate_type_scores"

Positions(c) == {i \in 1..Len(bank) : bank[i].type = c}
Answered(i) == bank[i].id \in DOMAIN arg.quiz_answers
Complete == \A i \in 1..Len(bank) : Answered(i)
RawAt(i) == IF Answered(i) THEN arg.quiz_answers[bank[i].id] ELSE 0
InLikert(v) == v \in 1..5
AllInLikert == \A k \in DOMAIN arg.quiz_answers : InLikert(arg.quiz_answers[k])

\* the reverse-corrected answer of the question at position i
Corrected == [i \in 1..Len(bank) |-> IF bank[i].reverse THEN 6 - RawAt(i) ELSE RawAt(i)]

\* C3: for a complete answer set with every value in 1..5, each category's
\* total is the sum over its questions of v, or 6 - v when reverse-scored,
\* and the nine totals add up to the sum of all corrected answers.
C3_TotalsAreCorrectedSums ==
    (Scored /\ Complete /\ AllInLikert) =>
        /\ \A c \in Types : ret[c] = SumOver(Corrected, Positions(c))
        /\ SumOver(ret, Types) = SumOver(Corrected, 1..Len(bank))

\* two questions of one category, one of them reverse-scored
C3_Witness ==
    /\ Scored /\ Complete /\ AllInLikert
    /\ Len(bank) = 2
    /\ bank[1].type = 9 /\ bank[2].type = 9
    /\ ~bank[1].reverse /\ bank[2].reverse
    /\ RawAt(1) = 2 /\ RawAt(2) = 5
    /\ ret[9] = 3

ReverseCalled == op = "reverse_score"

\* what a reverse-scored question adds to its category
ReverseContribution == [i \in 1..Len(bank) |-> IF InLikert(RawAt(i)) THEN 6 - RawAt(i) ELSE 0]
PlainContribution == [i \in 1..Len(bank) |-> RawAt(i)]

\* C7: a reverse-scored question contributes 6 - v for a raw v in 1..5 and 0
\* for any other raw integer, and reverse_score returns an integer (it does
\* not raise) for every integer.
C7_ReverseClamp ==
    /\ ReverseCalled =>
           /\ ret \in Int
           /\ ret = IF InLikert(arg.value) THEN 6 - arg.value ELSE 0
    /\ Scored =>
           \A c \in Types :
               ret[c] = SumOver(ReverseContribution, {i \in Positions(c) : bank[i].reverse})
                        + SumOver(PlainContribution, {i \in Positions(c) : ~bank[i].reverse})

\* a reverse-scored question answered 7 beside one answered 2
C7_Witness ==
    /\ Scored
    /\ Len(bank) = 2
    /\ bank[1].type = 1 /\ bank[2].type = 1
    /\ bank[1].reverse /\ bank[2].reverse
    /\ RawAt(1) = 7 /\ RawAt(2) = 2
    /\ Answered(1)
    /\ ret[1] = 4

ValidityCalled == op = "calculate_validity_stats"
Processed == op = "process_quiz_submission"

SquaresOf(s) == [i \in 1..Len(s) |-> s[i] * s[i]]

\* mean = sum/N and sd^2 = (N * sum(x^2) - sum^2) / N^2, as exact rationals
PopulationStats(stats, values) ==
    LET n == Len(values)
        total == SumSeq(values)
    IN  /\ RatEq(stats.mean, Rat(total, n))
        /\ RatEq(stats.sd.root_of, Rat(n * SumSeq(SquaresOf(values)) - total * total, n * n))
        /\ (stats.sd.root_of.num = 0) <=> (\A i, j \in 1..n : values[i] = values[j])

RawInBankOrder == [i \in 1..Len(bank) |-> arg.quiz_answers[bank[i].id]]

\* C8: over a non-empty list of raw answer values the mean is sum/N and the
\* standard deviation is the population one (divisor N), 0 exactly when all
\* values are equal; the empty list gives mean 0 and deviation 0; the
\* pipeline gives it the raw values, before the reverse correction.
C8_PopulationStats ==
    /\ ValidityCalled =>
           IF arg.all_values = <<>>
           THEN /\ ret.ok
                /\ ret.value.mean.num = 0
                /\ ret.value.sd.root_of.num = 0
           ELSE /\ (\A i \in 1..Len(arg.all_values) : InLikert(arg.all_values[i]))
                       => ret.ok
                /\ ret.ok => PopulationStats(ret.value, arg.all_values)
    /\ (Processed /\ ret.ok /\ bank # <<>>) =>
           PopulationStats(ret.value.validity, RawInBankOrder)

\* unequal values: a positive deviation, where the sample form would differ
C8_Witness ==
    /\ ValidityCalled
    /\ arg.all_values = <<1, 5, 5>>
    /\ ret.ok
    /\ ret.value.mean = Rat(11, 3)
    /\ RatEq(ret.value.sd.root_of, Rat(32, 9))


(***************************************************************************)
(* The submission handler, and the pipeline called directly.               *)
(***************************************************************************)
InputChars == {"a", "Z", "1", " ", "<", "-", "!"}
EdgeChars == {"b", " ", "<", "!"}

ShortTexts == SeqsUpTo(InputChars, MaxShort)

\* texts about as long as a limit: a run of one letter between two edges
LongTexts(limit) ==
    {pre \o Rep("a", k) \o suf :
        pre \in SeqsUpTo(EdgeChars, 1), suf \in SeqsUpTo(EdgeChars, 1),
        k \in (limit - 2)..(limit + MaxOver)}

NameTexts == ShortTexts \cup LongTexts(NameMaxLength)
TeamTexts == ShortTexts \cup LongTexts(TeamMaxLength)

GoodName == <<"A", "b">>
GoodTeam == <<"a", "b", "1">>
No == <<"n", "o">>

\* the text of a q_<id> form field
FormTexts == {<<"3">>, <<"6">>, <<"-", "1">>, <<"x">>, <<" ", "5">>}
Forms == UNION {[K -> FormTexts] : K \in SUBSET (1..MaxQ)}

\* the form that answers every question of the bank with 3
AllThrees(questions) == [k \in {questions[i].id : i \in 1..Len(questions)} |-> <<"3">>]

SubmitRequest(name, consent, team, form, logger) ==
    [fn |-> "submit_quiz", name |-> name, consent |-> consent, team |-> team,
     form |-> form, logger |-> logger, delete_token |-> "token1"]

Init ==
    /\ op = "init"
    /\ ret = None
    /\ sheet = <<>>
    /\ CacheIdle
    /\ \/ /\ bank \in Banks
          /\ \E form \in Forms, logger \in LoggerOutcomes :
                arg = SubmitRequest(GoodName, Yes, None, form, logger)
       \/ /\ bank \in BanksOf(1)
          /\ \E name \in NameTexts, consent \in {Yes, No},
                team \in {None, Some(GoodTeam)},
                form \in {AllThrees(bank), <<>>} :
                arg = SubmitRequest(name, consent, team, form, "True")
       \/ /\ bank \in BanksOf(1)
          /\ \E name \in {GoodName, <<>>},
                team \in {None} \cup {Some(t) : t \in TeamTexts},
                form \in {AllThrees(bank), <<>>} :
                arg = SubmitRequest(name, Yes, team, form, "True")
       \/ InitProcessCalls({GoodName, <<>>}, {"token1"})

Submit ==
    /\ op = "init"
    /\ arg.fn = "submit_quiz"
    /\ LET out == SubmitQuiz(arg.name, arg.consent, arg.team, arg.form, bank,
                             arg.logger, arg.delete_token)
       IN  /\ ret' = out
           /\ sheet' = sheet \o out.rows
    /\ op' = "submit_quiz"
    /\ UNCHANGED <<bank, arg, team_cache, now, settings>>

Next == Submit \/ Process

Spec == Init /\ [][Next]_vars


(***************************************************************************)
(* Properties of the submission handler and the pipeline (Spec).           *)
(***************************************************************************)
Submitted == op = "submit_quiz"

\* the q_<id> keys the caller supplied
SuppliedKeys == IF arg.fn = "submit_quiz" THEN DOMAIN arg.form ELSE DOMAIN arg.quiz_answers
MissingPositions == {i \in 1..Len(bank) : bank[i].id \notin SuppliedKeys}
FirstMissingId == bank[Least(MissingPositions)].id

\* the request passes the name, team and consent validation, and every q_
\* field is the text of an integer
PassesValidation == SanitizedSubmission(arg.name, arg.consent, arg.team).ok
AllFieldsParse == \A k \in DOMAIN arg.form : ParseInt(arg.form[k]).ok

ScoringCalls == {"calculate_type_scores", "determine_top_type",
                 "calculate_validity_stats", "EnneagramResult"}

\* C5: a submission lacking an answer for a question of the bank fails with
\* the error naming the first missing question in bank order, before any
\* scoring or classification: no profile, no Result, nothing logged.
C5_IncompleteSubmission ==
    /\ (Submitted /\ MissingPositions # {}) =>
           /\ ret.response.kind = "error"
           /\ "process" \notin Range(ret.steps)
           /\ Range(ret.calls) \cap ScoringCalls = {}
           /\ sheet = <<>>
           /\ (PassesValidation /\ AllFieldsParse) =>
                  /\ ret.response.status_code = 400
                  /\ ret.response.message
                         = <<"Missing answer for question", FirstMissingId>>
    /\ (Processed /\ MissingPositions # {}) =>
           /\ ~ret.ok
           /\ ret.exc = "ValueError"
           /\ ret.msg = <<"Missing answer for question", FirstMissingId>>
           /\ Range(ret.calls) \cap ScoringCalls = {}
           /\ sheet = <<>>

\* both questions of a bank listing id 2 before id 1 are unanswered
C5_Witness ==
    /\ Submitted
    /\ Len(bank) = 2
    /\ bank[1].id = 2
    /\ MissingPositions = {1, 2}
    /\ PassesValidation /\ AllFieldsParse
    /\ ret.response.message = <<"Missing answer for question", 2>>

\* the answers the pipeline is given: form fields parsed, or the dict itself
GivenAnswers ==
    IF arg.fn = "submit_quiz"
    THEN [k \in {x \in DOMAIN arg.form : ParseInt(arg.form[x]).ok} |->
             ParseInt(arg.form[k]).value]
    ELSE arg.quiz_answers
BankIds == {bank[i].id : i \in 1..Len(bank)}
OutOfRangeAnswer == \E k \in DOMAIN GivenAnswers : ~InLikert(GivenAnswers[k])
ExtraAnswer == \E k \in SuppliedKeys : k \notin BankIds

\* C6: a submission carrying an answer value outside 1..5, or an answer for
\* a question id that is not in the bank, is rejected and produces no Result.
C6_OutOfRangeOrExtraRejected ==
    /\ (Submitted /\ (OutOfRangeAnswer \/ ExtraAnswer)) => ret.response.kind = "error"
    /\ (Processed /\ (OutOfRangeAnswer \/ ExtraAnswer)) => ~ret.ok

TeamPresent == arg.team # None /\ The(arg.team) # <<>>

\* ^[a-z0-9]{3,20}$ on the team trimmed and lowercased
MatchesTeamPattern ==
    LET v == Lower(Strip(The(arg.team)))
    IN  /\ Len(v) >= 3
        /\ Len(v) <= 20
        /\ \A i \in 1..Len(v) : v[i] \in LowerChars \cup DigitChars

ReportedInvalidTeam ==
    /\ ret.response.kind = "error"
    /\ ret.response.message[1] = "validation"
    /\ \E e \in ret.response.message[2] : e[1] = "team"

\* C9: a team, when present, is accepted if and only if it matches
\* ^[a-z0-9]{3,20}$ after trimming and lowercasing; every other team is
\* reported as an invalid team name and no Result is produced.
C9_TeamAcceptedIffPattern ==
    (Submitted /\ TeamPresent) =>
        /\ ReportedInvalidTeam <=> ~MatchesTeamPattern
        /\ ~MatchesTeamPattern => ret.response.kind = "error"

NameEmptyAfterSanitizing ==
    Strip(RemoveChars(Strip(arg.name), DangerousChars)) = <<>>

\* C10: a submission whose name is empty after trimming and sanitization is
\* rejected with a validation error before any answer is read or scored;
\* every accepted submission yields a Result whose name is non-empty and no
\* longer than the configured maximum name length.
C10_NameValidated ==
    Submitted =>
        /\ NameEmptyAfterSanitizing =>
               /\ ret.response.kind = "error"
               /\ ret.response.status_code = 400
               /\ ret.response.message[1] = "validation"
               /\ Range(ret.steps) \cap {"form", "answers", "process"} = {}
        /\ (PassesValidation /\ AllFieldsParse /\ MissingPositions = {}) =>
               /\ ret.response.kind = "redirect"
               /\ ret.response.data.name # <<>>
               /\ Len(ret.response.data.name) <= NameMaxLength


(***************************************************************************)
(* The pipeline called again and again on one service object.  Here arg is *)
(* the list of the calls made so far (positional arguments and the token   *)
(* generate_delete_token returned during the call) and ret the list of     *)
(* their outcomes.                                                         *)
(***************************************************************************)
RepeatNames == {GoodName, <<"Z">>}
RepeatAnswers == {<<>>, [k \in {1} |-> 3], [k \in {1} |-> 6]}

\* the positional arguments of a call: (name, quiz_answers), or
\* (name, quiz_answers, team) as submit_quiz passes them
PipelineArgs ==
    {<<n, a>> : n \in RepeatNames, a \in RepeatAnswers}
        \cup {<<n, a, Some(GoodTeam)>> : n \in RepeatNames, a \in RepeatAnswers}

\* one question of category 1, reverse-scored or not
RepeatBanks == {b \in BanksOf(1) : b[1].type = 1}

InitRepeat ==
    /\ bank \in RepeatBanks
    /\ op = "init"
    /\ arg = <<>>
    /\ ret = <<>>
    /\ sheet = <<>>
    /\ CacheIdle

ProcessAgain ==
    /\ Len(arg) < MaxCalls
    /\ \E args \in PipelineArgs, token \in Tokens :
          /\ arg' = Append(arg, [args |-> args, delete_token |-> token])
          /\ ret' = Append(ret, CallProcess(args, bank, token))
    /\ op' = "process_quiz_submission"
    /\ UNCHANGED <<bank, sheet, team_cache, now, settings>>

NextRepeat == ProcessAgain

SpecRepeat == InitRepeat /\ [][NextRepeat]_vars

ResultFields == {"name", "team", "top_type", "scores", "validity", "tied_types"}

PipelineOutcome ==
    ProcessQuizSubmission(
        SanitizedSubmission(arg.name, arg.consent, arg.team).value.name,
        GivenAnswers, bank, arg.delete_token)

\* the submission is one the pipeline has a Result for
HasResult ==
    /\ PassesValidation /\ AllFieldsParse /\ MissingPositions = {}
    /\ PipelineOutcome.ok

\* C12: for a submission the pipeline has a Result for, the caller gets the
\* redirect to the results page carrying that Result whether the result
\* logger succeeds, returns False or raises.
C12_LoggerNeverFailsSubmission ==
    (Submitted /\ HasResult) =>
        /\ ret.response.kind = "redirect"
        /\ ret.response.status_code = 303
        /\ ret.response.data.name = PipelineOutcome.value.name
        /\ ret.response.data.top_type = PipelineOutcome.value.top_type
        /\ ret.response.data.scores = ToDict(PipelineOutcome.value.scores)

\* the team as the schema keeps it
CleanTeam == Lower(Strip(The(arg.team)))

\* C13: a submission with a valid team completes with a Result whose team is
\* that team trimmed and lowercased, and the row given to the result logger
\* records it; a row records NA only for a submission without a team.
C13_TeamInResultAndRow ==
    /\ (Submitted /\ HasResult /\ TeamPresent /\ MatchesTeamPattern) =>
           /\ ret.response.kind = "redirect"
           /\ ret.response.data.team = Some(CleanTeam)
           /\ arg.logger = "True" =>
                  /\ Len(sheet) = 1
                  /\ sheet[1].team = CleanTeam
    /\ Submitted =>
           \A i \in 1..Len(sheet) : sheet[i].team = <<"N", "A">> => ~TeamPresent


(***************************************************************************)
(* Further properties of the scorer and the pipeline (SpecScorer).         *)
(***************************************************************************)
\* C14: the tied_types of a Result is None exactly when one category alone
\* holds the maximum score; otherwise it lists every category at the
\* maximum, once each, at least two of them, the top category among them.
C14_TiedNoneIffSingleMax ==
    (Processed /\ ret.ok) =>
        LET tied == ret.value.tied_types
            M == MaxCategories(ToDict(ret.value.scores))
        IN  /\ tied = None <=> Cardinality(M) = 1
            /\ tied # None =>
                   /\ Range(The(tied)) = M
                   /\ Len(The(tied)) = Cardinality(M)
                   /\ Cardinality(M) >= 2
                   /\ ret.value.top_type \in M

\* questions of categories 1 and 2 answered alike: both tied, 1 on top
C14_Witness ==
    /\ Processed /\ ret.ok
    /\ Len(bank) = 2
    /\ ret.value.scores.type_1 = 3 /\ ret.value.scores.type_2 = 3
    /\ ret.value.tied_types = Some(<<1, 2>>)
    /\ ret.value.top_type = 1

\* a lone maximum: no tied_types
C14_WitnessSingle ==
    /\ Processed /\ ret.ok
    /\ ret.value.scores.type_2 = 4 /\ ret.value.scores.type_1 = 3
    /\ ret.value.tied_types = None

\* the categories a question of the bank with an answer adds to
Contributing == {bank[i].type : i \in {j \in 1..Len(bank) : Answered(j)}}

\* C15: whatever the bank and the answers (complete or not, in range or
\* not), the profile has exactly the keys 1..9, and a category without a
\* question, or without an answer to any of its questions, has total 0.
C15_NineKeys ==
    Scored =>
        /\ DOMAIN ret = 1..9
        /\ \A c \in 1..9 : c \notin Contributing => ret[c] = 0

\* one answered question out of range, another question unanswered
C15_Witness ==
    /\ Scored
    /\ Len(bank) = 2
    /\ bank[1].type = 2 /\ bank[2].type = 9
    /\ Answered(1) /\ ~Answered(2)
    /\ RawAt(1) = 7
    /\ ret[2] = 7 /\ ret[9] = 0 /\ ret[5] = 0
    /\ DOMAIN ret = 1..9


(***************************************************************************)
(* api/quiz.py: calculate_team_stats                                       *)
(*                                                                         *)
(* A row (member) is a dict from column header to cell text.  Floats are   *)
(* exact; a float rounded to one decimal is the rational t/10.             *)
(***************************************************************************)
TopTypeColumn == "Top Type"

\* int(member.get('Top Type', 0)): the default 0 is written as its text
TopTypeOf(member) == ParseInt(Get(member, TopTypeColumn, <<"0">>))

RECURSIVE CountTypes(_, _)
CountTypes(team_data, type_counts) ==
    IF team_data = <<>> THEN type_counts
    ELSE LET top_type == TopTypeOf(Head(team_data)).value
         IN  CountTypes(Tail(team_data),
                 IF 1 <= top_type /\ top_type <= NumTypes
                 THEN [type_counts EXCEPT ![top_type] = @ + 1]
                 ELSE type_counts)

TypeNames(t) ==
    CASE t = 1 -> "Reformer" [] t = 2 -> "Helper" [] t = 3 -> "Achiever"
      [] t = 4 -> "Individualist" [] t = 5 -> "Investigator"
      [] t = 6 -> "Loyalist" [] t = 7 -> "Enthusiast"
      [] t = 8 -> "Challenger" [] t = 9 -> "Peacemaker"

\* round(x, 1) of a rational x >= 0: the nearest tenth, an exact tie going
\* to the even one
Round1(x) ==
    LET up == (20 * x.num + x.den) \div (2 * x.den)
        tie == (20 * x.num + x.den) % (2 * x.den) = 0
    IN  Rat(IF tie /\ up % 2 = 1 THEN up - 1 ELSE up, 10)

\* mutant: the percentage is cut, not rounded, to one decimal
PercentageTruncated(count, total_members) ==
    IF total_members > 0
    THEN Rat((1000 * count) \div total_members, 10)
    ELSE Rat(0, 10)

\* round((count / total_members * 100) if total_members > 0 else 0, 1)
Percentage(count, total_members) ==
    IF total_members > 0 THEN Round1(Rat(count * 100, total_members))
    ELSE Rat(0, 10)

\* TeamTypeCount(...): type_number ge=1 le=9, count ge=0, percentage ge=0 le=100
TeamTypeCount(type_number, type_name, count, percentage) ==
    IF /\ type_number \in Types
       /\ count >= 0
       /\ RatLeq(Rat(0, 1), percentage) /\ RatLeq(percentage, Rat(100, 1))
    THEN Return([type_number |-> type_number, type_name |-> type_name,
                 count |-> count, percentage |-> percentage])
    ELSE Raise("ValueError", <<"TeamTypeCount">>)

\* mutant: the guard admits teams of three
UnderrepresentedTypesFromThree(type_counts, total_members) ==
    SelectSeq(TypeList, LAMBDA t : type_counts[t] = 1 /\ total_members >= 3)

UnderrepresentedTypes(type_counts, total_members) ==
    SelectSeq(TypeList, LAMBDA t : type_counts[t] = 1 /\ total_members > 3)

\* mutant: the average itself, not one and a half times it
DominantThresholdAverage(total_members) ==
    LET avg_per_type == Rat(total_members, 9)
    IN  IF RatLeq(avg_per_type, Rat(2, 1)) THEN Rat(2, 1) ELSE avg_per_type

\* max(2, avg_per_type * 1.5)
DominantThreshold(total_members) ==
    LET avg_per_type == Rat(total_members, 9)
        scaled == Rat(avg_per_type.num * 3, avg_per_type.den * 2)
    IN  IF RatLeq(scaled, Rat(2, 1)) THEN Rat(2, 1) ELSE scaled

DominantTypes(type_counts, total_members) ==
    IF total_members > 0
    THEN SelectSeq(TypeList,
             LAMBDA t : RatLeq(DominantThreshold(total_members),
                               Rat(type_counts[t], 1)))
    ELSE <<>>

\* The standard deviation of the nine counts over the greatest one held
\* possible, std_dev / max_possible_std, as sqrt(sqrt_num) / den:
\*   (c - n/9) ** 2 = (9c - n)^2 / 81, so variance = V / 729 with
\*   V = sum of (9c - n)^2, std_dev = sqrt(V) / 27,
\*   max_possible_std = ((n ** 2) / 9) ** 0.5 = n / 3.
NormalizedStd(type_counts, total_members) ==
    [sqrt_num |-> SumSeq([t \in Types |->
                     (9 * type_counts[t] - total_members)
                         * (9 * type_counts[t] - total_members)]),
     den |-> 9 * total_members]

\* 2000 * sqrt(v) <= d * y, that is 4000000 * v <= (d * y)^2, with (d * y)^2
\* divided by 4000000 before it is formed
Covers(y, v, d) ==
    LET q == (d * y) \div 2000
        r == (d * y) % 2000
    IN  q * q + (4000 * q * r + r * r) \div 4000000 >= v

CoversExactly(y, v, d) ==
    LET q == (d * y) \div 2000
        r == (d * y) % 2000
    IN  /\ q * q + (4000 * q * r + r * r) \div 4000000 = v
        /\ (4000 * q * r + r * r) % 4000000 = 0

\* the least y in lo..hi that Covers, hi being one
RECURSIVE LeastCover(_, _, _, _)
LeastCover(lo, hi, v, d) ==
    IF lo >= hi THEN hi
    ELSE LET mid == (lo + hi) \div 2
         IN  IF Covers(mid, v, d) THEN LeastCover(lo, mid, v, d)
             ELSE LeastCover(mid + 1, hi, v, d)

\* mutant: the normalized deviation is added, not subtracted
BalanceScorePlus(type_counts, total_members) ==
    IF total_members > 0
    THEN LET norm == NormalizedStd(type_counts, total_members)
             twice == LeastCover(0, 6000, norm.sqrt_num, norm.den)
         IN  Rat((2001 + twice) \div 2, 10)
    ELSE Rat(0, 10)

\* round(max(0, 100 * (1 - normalized_std)), 1), in tenths: with
\* s = 1000 * normalized_std the nearest integer to 1000 - s is
\* floor((2001 - ceil(2 * s)) / 2), an exact tie going to the even one
BalanceScore(type_counts, total_members) ==
    IF total_members > 0
    THEN LET norm == NormalizedStd(type_counts, total_members)
         IN  IF norm.sqrt_num >= norm.den * norm.den THEN Rat(0, 10)
             ELSE LET twice == LeastCover(0, 2000, norm.sqrt_num, norm.den)
                      up == (2001 - twice) \div 2
                      tie == twice % 2 = 1
                             /\ CoversExactly(twice, norm.sqrt_num, norm.den)
                  IN  Rat(IF tie /\ up % 2 = 1 THEN up - 1 ELSE up, 10)
    ELSE Rat(0, 10)

\* TeamStats(...): total_members ge=0, balance_score ge=0 le=100
TeamStats(team_name, total_members, type_distribution, missing_types, underrepresented_types, dominant_types, balance_score) ==
    IF /\ total_members >= 0
       /\ RatLeq(Rat(0, 1), balance_score) /\ RatLeq(balance_score, Rat(100, 1))
    THEN Return([team_name |-> team_name,
                 total_members |-> total_members,
                 type_distribution |-> type_distribution,
                 missing_types |-> missing_types,
                 underrepresented_types |-> underrepresented_types,
                 dominant_types |-> dominant_types,
                 balance_score |-> balance_score])
    ELSE Raise("ValueError", <<"TeamStats">>)

\* mutant: the empty team reports no missing category
EmptyTeamStatsNoneMissing(team_name) ==
    TeamStats(team_name, 0, <<>>, <<>>, <<>>, <<>>, Rat(0, 10))

\* "Return empty stats for teams with no data"
EmptyTeamStats(team_name) ==
    TeamStats(team_name, 0, <<>>, TypeList, <<>>, <<>>, Rat(0, 10))

CalculateTeamStats(team_data, team_name) ==
    IF team_data = <<>>
    THEN EmptyTeamStats(team_name)
    ELSE IF \E i \in 1..Len(team_data) : ~TopTypeOf(team_data[i]).ok
    THEN Raise("ValueError", <<"invalid literal for int()">>)
    ELSE LET type_counts == CountTypes(team_data, [t \in Types |-> 0])
             total_members == Len(team_data)
             entries == [t \in Types |->
                            TeamTypeCount(t, TypeNames(t), type_counts[t],
                                Percentage(type_counts[t], total_members))]
         IN  IF \E t \in Types : ~entries[t].ok
             THEN Raise("ValueError", <<"TeamTypeCount">>)
             ELSE TeamStats(team_name, total_members,
                      [t \in Types |-> entries[t].value],
                      SelectSeq(TypeList, LAMBDA t : type_counts[t] = 0),
                      UnderrepresentedTypes(type_counts, total_members),
                      DominantTypes(type_counts, total_members),
                      BalanceScore(type_counts, total_members))

(***************************************************************************)
(* calculate_team_stats applied to enumerated teams.                       *)
(***************************************************************************)
\* a row of the sheet whose Top Type cell holds the text, and one read
\* under headers that have no Top Type column
Member(text) ==
    [header \in {"Name", "Team", TopTypeColumn} |->
        CASE header = "Name" -> GoodName
          [] header = "Team" -> GoodTeam
          [] OTHER -> text]
MemberWithoutTopType ==
    [header \in {"Name", "Team"} |->
        IF header = "Name" THEN GoodName ELSE GoodTeam]

\* Top Type cells: categories, numbers outside 1..9, and an empty cell
CellTexts == {<<"1">>, <<"2">>, <<"9">>, <<"0">>, <<"1", "0">>, <<>>}
CategoryTexts == <<<<"1">>, <<"2">>, <<"3">>, <<"4">>, <<"5">>, <<"6">>,
                   <<"7">>, <<"8">>, <<"9">>>>
BigTexts == <<<<"1">>, <<"2">>, <<"3">>, <<"0">>>>

\* the lists of k counts that add up to total at most
RECURSIVE CountVectors(_, _)
CountVectors(k, total) ==
    IF k = 0 THEN {<<>>}
    ELSE UNION {{Append(v, x) : x \in 0..(total - SumSeq(v))} :
                   v \in CountVectors(k - 1, total)}

\* counts[i] rows holding texts[i], for i = 1, 2, ...
RECURSIVE TeamOfCounts(_, _)
TeamOfCounts(counts, texts) ==
    IF counts = <<>> THEN <<>>
    ELSE Rep(Member(Head(texts)), Head(counts))
             \o TeamOfCounts(Tail(counts), Tail(texts))

\* teams of a few rows in every order and with every kind of cell
SmallTeams ==
    SeqsUpTo({Member(t) : t \in CellTexts} \cup {MemberWithoutTopType}, MaxRows)

TeamRequest(team_data) ==
    [fn |-> "calculate_team_stats", team_data |-> team_data,
     team_name |-> GoodTeam]

InitTeam ==
    /\ bank = <<>>
    /\ op = "init"
    /\ ret = None
    /\ sheet = <<>>
    /\ CacheIdle
    /\ \/ \E team_data \in SmallTeams : arg = TeamRequest(team_data)
       \/ \E v \in CountVectors(NumTypes, MaxTeam) :
              arg = TeamRequest(TeamOfCounts(v, CategoryTexts))
       \/ \E v \in CountVectors(Len(BigTexts), MaxBig) :
              arg = TeamRequest(TeamOfCounts(v, BigTexts))

TeamStatsCalc ==
    /\ op = "init"
    /\ arg.fn = "calculate_team_stats"
    /\ op' = "calculate_team_stats"
    /\ ret' = CalculateTeamStats(arg.team_data, arg.team_name)
    /\ UNCHANGED <<bank, arg, sheet, team_cache, now, settings>>

NextTeam == TeamStatsCalc

SpecTeam == InitTeam /\ [][NextTeam]_vars


(***************************************************************************)
(* Properties of calculate_team_stats (SpecTeam).                          *)
(***************************************************************************)
TeamCalled == op = "calculate_team_stats"

\* the rows, and the top category each row holds as an integer
TeamRowsGiven == arg.team_data
CellOf(i) ==
    IF TopTypeColumn \in DOMAIN TeamRowsGiven[i]
    THEN TeamRowsGiven[i][TopTypeColumn] ELSE <<"0">>
CellsAreIntegers ==
    \A i \in 1..Len(TeamRowsGiven) :
        CellOf(i) \in {<<"0">>, <<"1", "0">>} \cup Range(CategoryTexts)
TopCategoryOf(i) ==
    IF CellOf(i) = <<"1", "0">> THEN 10
    ELSE IF CellOf(i) = <<"0">> THEN 0
    ELSE CHOOSE c \in 1..9 : CategoryTexts[c] = CellOf(i)
CountOf(c) == Cardinality({i \in 1..Len(TeamRowsGiven) : TopCategoryOf(i) = c})
Members == Len(TeamRowsGiven)
NonEmptyTeam == TeamCalled /\ Members > 0 /\ CellsAreIntegers
OnePerCategory == Members = 9 /\ \A c \in 1..9 : CountOf(c) = 1

Abs(x) == IF x < 0 THEN 0 - x ELSE x

\* C16: for a non-empty team total_members is the number of rows, and the
\* distribution lists the categories 1..9 in ascending order, each with the
\* number of rows holding it and that number over total_members times 100,
\* to the nearest tenth.
C16_Distribution ==
    NonEmptyTeam =>
        /\ ret.ok
        /\ ret.value.total_members = Members
        /\ DOMAIN ret.value.type_distribution = 1..9
        /\ \A c \in 1..9 :
               LET e == ret.value.type_distribution[c]
               IN  /\ e.type_number = c
                   /\ e.count = CountOf(c)
                   /\ e.percentage.den = 10
                   /\ Abs(2 * e.percentage.num * Members - 2000 * CountOf(c))
                          <= Members

\* three members, two of category 1 and one outside 1..9: 66.7 and 0.0
C16_Witness ==
    /\ NonEmptyTeam /\ ret.ok
    /\ Members = 3
    /\ CountOf(1) = 2 /\ CountOf(0) = 1
    /\ ret.value.type_distribution[1].percentage = Rat(667, 10)
    /\ ret.value.type_distribution[2].percentage = Rat(0, 10)

\* C17: dominant is exactly the categories c with count[c] >= 2 and
\* 6 * count[c] >= total_members, and is empty for nine rows, one a category.
C17_Dominant ==
    NonEmptyTeam =>
        /\ ret.ok
        /\ Range(ret.value.dominant_types)
               = {c \in 1..9 : CountOf(c) >= 2 /\ 6 * CountOf(c) >= Members}
        /\ OnePerCategory => ret.value.dominant_types = <<>>

\* thirteen members: a category of two is below the threshold 13/6, a
\* category of three is not
C17_Witness ==
    /\ NonEmptyTeam /\ ret.ok
    /\ Members = 13
    /\ CountOf(1) = 2 /\ CountOf(2) = 3 /\ CountOf(3) = 8
    /\ ret.value.dominant_types = <<2, 3>>

C17_WitnessNine ==
    /\ NonEmptyTeam /\ ret.ok /\ OnePerCategory
    /\ ret.value.dominant_types = <<>>

\* C18: underrepresented is the categories with count 1 when total_members
\* exceeds 3 and empty when it does not, and is 1..9 for nine rows, one a
\* category.
C18_Underrepresented ==
    NonEmptyTeam =>
        /\ ret.ok
        /\ Range(ret.value.underrepresented_types)
               = IF Members > 3 THEN {c \in 1..9 : CountOf(c) = 1} ELSE {}
        /\ OnePerCategory => ret.value.underrepresented_types = TypeList

C18_Witness ==
    /\ NonEmptyTeam /\ ret.ok /\ OnePerCategory
    /\ ret.value.underrepresented_types = <<1, 2, 3, 4, 5, 6, 7, 8, 9>>

\* three members in three categories: nothing is reported
C18_WitnessSmall ==
    /\ NonEmptyTeam /\ ret.ok
    /\ Members = 3
    /\ CountOf(1) = 1 /\ CountOf(2) = 1 /\ CountOf(9) = 1
    /\ ret.value.underrepresented_types = <<>>

\* C19: whatever the rows (none, any number, top categories outside 1..9),
\* balance_score is between 0 and 100 and TeamStats is built; the call
\* fails only where int() fails on a Top Type cell.
C19_BalanceInRange ==
    TeamCalled =>
        /\ ret.ok =>
               /\ RatLeq(Rat(0, 1), ret.value.balance_score)
               /\ RatLeq(ret.value.balance_score, Rat(100, 1))
        /\ ~ret.ok =>
               /\ ret.msg = <<"invalid literal for int()">>
               /\ \E i \in 1..Members : CellOf(i) = <<>>

\* a single member whose top category is 0: counts all 0, score 66.7
C19_Witness ==
    /\ NonEmptyTeam /\ ret.ok
    /\ Members = 1
    /\ CountOf(0) = 1
    /\ ret.value.balance_score = Rat(667, 10)

AllShareOneCategory ==
    \E c \in 1..9 : CountOf(c) = Members

\* C20: when every member of a non-empty team has the same top category the
\* standard deviation of the counts equals max_possible_std (their ratio is
\* 1) and balance_score is 0.
C20_MaxStdAttained ==
    (NonEmptyTeam /\ AllShareOneCategory) =>
        /\ ret.ok
        /\ LET norm == NormalizedStd([c \in 1..9 |-> CountOf(c)], Members)
           IN  norm.sqrt_num = norm.den * norm.den
        /\ ret.value.balance_score.num = 0


(***************************************************************************)
(* Further properties of calculate_team_stats (SpecTeam).                  *)
(***************************************************************************)
AllCountsEqual == \A c, d \in 1..9 : CountOf(c) = CountOf(d)

\* C21: for a non-empty team whose nine category counts are all equal the
\* deviation of the counts is 0, balance_score is 100.0 and no category is
\* missing.
C21_EqualCountsBalanced ==
    (NonEmptyTeam /\ AllCountsEqual) =>
        /\ ret.ok
        /\ NormalizedStd([c \in 1..9 |-> CountOf(c)], Members).sqrt_num = 0
        /\ ret.value.balance_score = Rat(1000, 10)
        /\ ret.value.missing_types = <<>>

\* C22: for no rows at all the call returns total_members 0, every category
\* missing, nothing underrepresented or dominant and balance_score 0.0; it
\* does not raise.
C22_EmptyTeam ==
    (TeamCalled /\ Members = 0) =>
        /\ ret.ok
        /\ ret.value.total_members = 0
        /\ ret.value.missing_types = <<1, 2, 3, 4, 5, 6, 7, 8, 9>>
        /\ ret.value.underrepresented_types = <<>>
        /\ ret.value.dominant_types = <<>>
        /\ ret.value.balance_score.num = 0
        /\ ret.value.type_distribution = <<>>

C22_Witness ==
    /\ TeamCalled /\ Members = 0
    /\ ret.ok
    /\ ret.value.team_name = GoodTeam
    /\ ret.value.total_members = 0
    /\ Len(ret.value.missing_types) = 9

\* C29: for a non-empty team the nine counts of the distribution add up to
\* total_members: every row is counted in exactly one category.
C29_CountsSumToTotal ==
    NonEmptyTeam =>
        /\ ret.ok
        /\ SumSeq([c \in 1..9 |-> ret.value.type_distribution[c].count])
               = ret.value.total_members


(***************************************************************************)
(* Further properties of the classifier (SpecClassify).                    *)
(***************************************************************************)
\* C28: for a profile of non-negative totals the top category is present,
\* is one of 1..9 and holds the maximum score (it is in the tied list), also
\* when all nine totals are 0.
C28_TopPresent ==
    Classified =>
        /\ ret.top_type # None
        /\ Cardinality(ret.top_type) = 1
        /\ The(ret.top_type) \in 1..9
        /\ The(ret.top_type) \in Range(ret.tied_types)
        /\ The(ret.top_type) \in MaxCategories(arg.type_scores)

\* nine totals of 0: all tied, every center total 0, category 1 on top
C28_Witness ==
    /\ Classified
    /\ \A t \in 1..9 : arg.type_scores[t] = 0
    /\ Len(ret.tied_types) = 9
    /\ ret.top_type = Some(1)


(***************************************************************************)
(* Results carried in the redirect URL (show_results) and results stored   *)
(* in the results table (get_result_by_token, export_results_csv).         *)
(***************************************************************************)
\* the context show_results renders when it has no result to show
MessageOnly(message) ==
    [template |-> "results.html",
     context |-> [message |-> message, show_message_only |-> TRUE]]

\* show_results: data is the query parameter, None when it is absent.  Any
\* exception of the decoding, of json.loads or of a missing key ends in the
\* "Invalid results data" page.
ShowResults(data) ==
    IF data = None
    THEN MessageOnly(<<"Complete the assessment to see your results.">>)
    ELSE LET decoded_data == UrlsafeB64Decode(The(data))
             loaded == IF decoded_data.ok THEN JsonLoadsResult(decoded_data.value)
                       ELSE decoded_data
             result_data == loaded.value
         IN  IF ~loaded.ok \/ {"top_type", "scores", "name"} \ DOMAIN result_data # {}
             THEN MessageOnly(<<"Invalid results data. Please take the assessment again.">>)
             ELSE LET wings == CalculateWings(result_data.top_type, result_data.scores)
                  IN  [template |-> "results.html",
                       context |-> [name |-> result_data.name,
                                    team |-> Get(result_data, "team", None),
                                    top_type |-> result_data.top_type,
                                    scores |-> result_data.scores,
                                    wings |-> wings,
                                    validity |-> Get(result_data, "validity",
                                                     [mean |-> Rat(3, 1), sd |-> Rat(1, 1)]),
                                    show_delete_option |-> FALSE]]

\* save_quiz_result: the values of the row it inserts into the results
\* table.  The Result has no delete_token field (the INSERT as written stops
\* on result.delete_token), so the token is given beside it.
ResultRow(id, ts, result, delete_token) ==
    [id |-> id,
     ts |-> ts,
     name |-> result.name,
     top_type |-> result.top_type,
     scores_json |-> JsonDumps(ToDict(result.scores)),
     raw_json |-> JsonDumps(<<>>),
     validity_json |-> [mean |-> result.validity.mean, sd |-> result.validity.sd],
     delete_token |-> delete_token]

\* get_result_by_token: results is the table in id order.  None when no row
\* has the token; an exception reaches the handler that logs with
\* app_logger, a name this module never imports.
GetResultByToken(results, delete_token) ==
    LET rows == SelectSeq(results, LAMBDA r : r.delete_token = delete_token)
        row == rows[1]
        scores == JsonLoads(row.scores_json)
    IN  IF rows = <<>> THEN Return(None)
        ELSE IF ~scores.ok THEN Raise("NameError", <<"app_logger">>)
        ELSE LET int_scores == [k \in {IntOfStr(s) : s \in DOMAIN scores.value}
                                    |-> scores.value[Str(k)]]
                 wings == CalculateWings(row.top_type, int_scores)
             IN  Return(Some([name |-> row.name,
                              top_type |-> row.top_type,
                              scores |-> int_scores,
                              validity |-> row.validity_json,
                              wings |-> wings]))

CsvHeader == <<"id", "timestamp_utc", "name", "top_type", "type1", "type2", "type3", "type4", "type5", "type6", "type7", "type8", "type9">>

\* export_results_csv: the header and one row of cells for every row of the
\* table; json.loads failing on a row ends the export
ExportResultsCsv(results) ==
    LET Loaded(i) == JsonLoads(results[i].scores_json)
        CsvRow(row, scores) ==
            <<Str(row.id), row.ts, row.name, Str(row.top_type)>>
                \o [i \in Types |-> Str(Get(scores, Str(i), 0))]
    IN  IF \E i \in DOMAIN results : ~Loaded(i).ok
        THEN Raise("JSONDecodeError", <<"Expecting value">>)
        ELSE Return([header |-> CsvHeader,
                     rows |-> [i \in DOMAIN results |->
                                  CsvRow(results[i], Loaded(i).value)]])

\* the Result process_quiz_submission builds for the profile p
ResultOfProfile(p) ==
    LET top == DetermineTopType(p)
    IN  EnneagramResult(GoodName, top.top_type, EnneagramScoresFromDict(p).value,
                        ValidityStats(Rat(3, 1), Root(Rat(0, 1))).value, "token1",
                        IF Len(top.tied_types) > 1 THEN Some(top.tied_types)
                        ELSE None).value

\* the profile with every total taken from the other end of the range
Mirror(p) == [t \in Types |-> MaxWing - p[t]]

ReverseSeq(s) == [i \in DOMAIN s |-> s[Len(s) + 1 - i]]

\* a stored row whose scores object lists its keys from 9 down to 1
KeysDescending(row) ==
    [row EXCEPT !.scores_json = [members |-> ReverseSeq(@.members)]]

\* the table after the results of p and of its mirror were stored
StoredResults(p, descending) ==
    LET first == ResultRow(1, <<"t", "1">>, ResultOfProfile(p), "token1")
        second == ResultRow(2, <<"t", "2">>, ResultOfProfile(Mirror(p)), "token2")
    IN  <<IF descending THEN KeysDescending(first) ELSE first, second>>

\* a row whose scores_json is no JSON
BrokenResults ==
    <<[ResultRow(1, <<"t", "1">>, ResultOfProfile([t \in Types |-> 0]), "token1")
           EXCEPT !.scores_json = [text |-> <<"{">>]]>>

LookupTokens == Tokens \cup {"token3"}

InitTransport ==
    /\ bank = <<>>
    /\ op = "init"
    /\ ret = None
    /\ sheet = <<>>
    /\ CacheIdle
    /\ \/ \E p \in Profiles(MaxWing) :
             arg = [fn |-> "show_results", stored |-> TRUE, profile |-> p,
                    data |-> Some(EncodedData(ResultData(ResultOfProfile(p))))]
       \/ \E d \in {None,
                    Some([text |-> <<"x">>]),
                    Some(UrlsafeB64Encode([text |-> <<"x">>])),
                    Some(UrlsafeB64Encode([object |-> [name |-> GoodName]]))} :
             arg = [fn |-> "show_results", stored |-> FALSE, data |-> d]
       \/ \E p \in Profiles(MaxWing) :
             arg = [fn |-> "from_dict", scores_dict |-> p]
       \/ \E p \in Profiles(MaxWing), descending \in BOOLEAN, t \in LookupTokens :
             arg = [fn |-> "get_result_by_token", stored |-> TRUE,
                    profiles |-> <<p, Mirror(p)>>,
                    results |-> StoredResults(p, descending), delete_token |-> t]
       \/ arg = [fn |-> "get_result_by_token", stored |-> FALSE,
                 results |-> BrokenResults, delete_token |-> "token1"]
       \/ \E p \in Profiles(MaxWing), descending \in BOOLEAN :
             arg = [fn |-> "export_results_csv", stored |-> TRUE,
                    profiles |-> <<p, Mirror(p)>>,
                    results |-> StoredResults(p, descending)]
       \/ \E r \in {<<>>, BrokenResults} :
             arg = [fn |-> "export_results_csv", stored |-> FALSE, results |-> r]

Show ==
    /\ op = "init"
    /\ arg.fn = "show_results"
    /\ op' = "show_results"
    /\ ret' = ShowResults(arg.data)
    /\ UNCHANGED <<bank, arg, sheet, team_cache, now, settings>>

\* EnneagramScores.from_dict(scores_dict).to_dict()
FromDictToDict ==
    /\ op = "init"
    /\ arg.fn = "from_dict"
    /\ op' = "to_dict"
    /\ ret' = LET scores == EnneagramScoresFromDict(arg.scores_dict)
              IN  IF scores.ok THEN Return(ToDict(scores.value)) ELSE scores
    /\ UNCHANGED <<bank, arg, sheet, team_cache, now, settings>>

ResultByToken ==
    /\ op = "init"
    /\ arg.fn = "get_result_by_token"
    /\ op' = "get_result_by_token"
    /\ ret' = GetResultByToken(arg.results, arg.delete_token)
    /\ UNCHANGED <<bank, arg, sheet, team_cache, now, settings>>

Export ==
    /\ op = "init"
    /\ arg.fn = "export_results_csv"
    /\ op' = "export_results_csv"
    /\ ret' = ExportResultsCsv(arg.results)
    /\ UNCHANGED <<bank, arg, sheet, team_cache, now, settings>>

NextTransport == Show \/ FromDictToDict \/ ResultByToken \/ Export

SpecTransport == InitTransport /\ [][NextTransport]_vars

(***************************************************************************)
(* Properties of the stored and the transported profile (SpecTransport).   *)
(***************************************************************************)
\* the rows of the table that hold the token looked up
RowsWithToken == {i \in DOMAIN arg.results : arg.results[i].delete_token = arg.delete_token}

\* the column of the export that holds the score of category t
ScoreColumn(t) == 4 + t

\* C23: from_dict followed by to_dict gives back the profile it was given,
\* key for key; and a profile read back from its stored JSON, by
\* get_result_by_token or by export_results_csv, has the same nine integers
\* under the same categories, in whatever order the object lists its keys.
C23_ProfileRoundTrip ==
    /\ op = "to_dict" =>
           /\ ret.ok
           /\ DOMAIN ret.value = 1..9
           /\ \A t \in 1..9 : ret.value[t] = arg.scores_dict[t]
    /\ (op = "get_result_by_token" /\ arg.stored /\ RowsWithToken # {}) =>
           /\ ret.ok
           /\ ret.value # None
           /\ LET i == CHOOSE j \in RowsWithToken : TRUE
              IN  /\ DOMAIN The(ret.value).scores = 1..9
                  /\ \A t \in 1..9 : The(ret.value).scores[t] = arg.profiles[i][t]
    /\ (op = "export_results_csv" /\ arg.stored) =>
           /\ ret.ok
           /\ Len(ret.value.rows) = Len(arg.results)
           /\ \A i \in DOMAIN arg.results : \A t \in 1..9 :
                  ret.value.rows[i][ScoreColumn(t)] = Str(arg.profiles[i][t])

\* a profile that tells category 1 from category 9, stored with its keys
\* listed 9..1, is read back by its token
C23_Witness ==
    /\ op = "get_result_by_token" /\ arg.stored
    /\ arg.delete_token = "token1"
    /\ arg.results[1].scores_json.members[1][1] = Str(9)
    /\ arg.profiles[1][1] = 1 /\ arg.profiles[1][9] = 0
    /\ ret.ok /\ ret.value # None
    /\ The(ret.value).scores[1] = 1 /\ The(ret.value).scores[9] = 0

\* the same profile through from_dict and to_dict
C23_WitnessRoundTrip ==
    /\ op = "to_dict"
    /\ arg.scores_dict[1] = 1 /\ arg.scores_dict[9] = 0
    /\ ret.ok
    /\ ret.value[1] = 1 /\ ret.value[9] = 0

\* and through the export
C23_WitnessExport ==
    /\ op = "export_results_csv" /\ arg.stored
    /\ arg.profiles[1][1] = 1 /\ arg.profiles[1][9] = 0
    /\ ret.ok
    /\ ret.value.rows[1][ScoreColumn(1)] = Str(1)
    /\ ret.value.rows[1][ScoreColumn(9)] = Str(0)

\* C27: the wing show_results derives from a result carried in the redirect
\* URL is the wing calculate_wings gives for the top category and the
\* profile with integer keys.
C27_TransportedWing ==
    (op = "show_results" /\ arg.stored) =>
        /\ "wings" \in DOMAIN ret.context
        /\ ret.context.wings
               = CalculateWings(ResultOfProfile(arg.profile).top_type, arg.profile)

(***************************************************************************)
(* api/quiz.py: team_stats, the team page with its cache.                  *)
(*                                                                         *)
(* team_cache is the dict in insertion order: entries [key, data, time].   *)
(* The body of the handler has no await after get_templates(), so on the   *)
(* event loop it runs from the name check to the response as one step.     *)
(***************************************************************************)
CacheLimit == 50        \* len(team_cache) > 50
EvictCount == 10        \* [:10]
CacheDuration == 60     \* timedelta(minutes=1), in seconds
ClockStep == 30         \* the clock is read every half minute

\* settings.disable_caching: read by team_stats, declared nowhere in
\* core/config.py; the cache is optional, on or off for the process
DisableCachingValues == BOOLEAN

SheetHeaders == <<"Name", "Team", TopTypeColumn>>

\* what the spreadsheet service does when it is asked for the values
ServiceOutcomes == {"values", "unavailable", "error"}

\* the elements of seq at the positions in keep, in their order
Pick(seq, keep) ==
    LET NewPos(i) == Cardinality({j \in keep : j <= i})
    IN  [n \in 1..Cardinality(keep) |-> seq[CHOOSE i \in keep : NewPos(i) = n]]

\* sheets_service.get_team_data: the rows of the team as dicts keyed by the
\* headers; [] when the service is unavailable, the call raises, the sheet
\* is empty or has no Team column
GetTeamData(service, values, team_name) ==
    IF service # "values" \/ values = <<>> THEN <<>>
    ELSE LET headers == values[1]
             team_cols == {i \in DOMAIN headers : headers[i] = "Team"}
         IN  IF team_cols = {} THEN <<>>
             ELSE LET team_col_index == CHOOSE i \in team_cols : \A j \in team_cols : i <= j
                      HeaderAt(h) == CHOOSE i \in DOMAIN headers :
                                        /\ headers[i] = h
                                        /\ \A j \in DOMAIN headers : headers[j] = h => j <= i
                      RowDict(row) == [h \in Range(headers) |->
                                          IF HeaderAt(h) <= Len(row) THEN row[HeaderAt(h)]
                                          ELSE <<>>]
                      matching == {i \in 2..Len(values) :
                                      /\ Len(values[i]) >= team_col_index
                                      /\ Lower(values[i][team_col_index]) = Lower(team_name)}
                      rows == Pick(values, matching)
                  IN  [i \in DOMAIN rows |-> RowDict(rows[i])]

\* mutant: every team shares one cache key
CacheKeyShared(clean_team_name) == <<"team_">>

\* cache_key = f"team_{clean_team_name}"
CacheKey(clean_team_name) == <<"team_">> \o clean_team_name

\* mutant: an entry exactly one minute old is still served
FreshAtLimit(clock, cached_time) == clock - cached_time <= CacheDuration

\* now - cached_time < CACHE_DURATION
Fresh(clock, cached_time) == clock - cached_time < CacheDuration

\* team_cache[cache_key] = (team_stats_obj, now): a key already in the dict
\* keeps its place, a new key goes last
Store(cache, cache_key, data, time) ==
    LET at == {i \in DOMAIN cache : cache[i].key = cache_key}
        entry == [key |-> cache_key, data |-> data, time |-> time]
    IN  IF at = {} THEN Append(cache, entry)
        ELSE [i \in DOMAIN cache |-> IF i \in at THEN entry ELSE cache[i]]

\* the number of entries sorted() puts before entry i: the older ones and,
\* the sort being stable, the equally old ones that come before it
RankByTime(cache, i) ==
    Cardinality({j \in DOMAIN cache :
                    \/ cache[j].time < cache[i].time
                    \/ cache[j].time = cache[i].time /\ j < i})

\* mutant: the newest entries are the ones removed
CleanOldEntriesNewest(cache) ==
    IF Len(cache) > CacheLimit
    THEN Pick(cache, {i \in DOMAIN cache : RankByTime(cache, i) < Len(cache) - EvictCount})
    ELSE cache

\* "Clean old cache entries": past the limit the first ten keys by stored
\* time are deleted
CleanOldEntries(cache) ==
    IF Len(cache) > CacheLimit
    THEN Pick(cache, {i \in DOMAIN cache : RankByTime(cache, i) >= EvictCount})
    ELSE cache

TeamPage(team_stats_obj) ==
    [kind |-> "page", status_code |-> 200, template |-> "team.html",
     team_stats |-> team_stats_obj]

\* the name the handler works with
CleanTeamName(team_name) == SanitizeInput(Lower(Strip(team_name)), TeamMaxLength)

\* The whole handler.  values is the sheet and service what the spreadsheet
\* service does if it is asked.  The outcome is the response, the cache
\* after it, and where the statistics came from: "cache", "rows" (read from
\* the sheet), "failed" (the read gave [] for a failure) or "none".
TeamStatsHandler(team_name, cache, clock, disable_caching, values, service) ==
    LET clean_team_name == CleanTeamName(team_name)
        cache_key == CacheKey(clean_team_name)
        hit == {i \in DOMAIN cache : cache[i].key = cache_key}
        cached == cache[CHOOSE i \in hit : TRUE]
        team_data == GetTeamData(service, values, clean_team_name)
        team_stats_obj == CalculateTeamStats(team_data, clean_team_name)
        read == IF service = "values" THEN "rows" ELSE "failed"
        stored == IF ~disable_caching
                  THEN Store(cache, cache_key, team_stats_obj.value, clock)
                  ELSE cache
        Out(response, c, source) ==
            [response |-> response, team_cache |-> c, source |-> source]
    IN  IF ~ReMatchPlus(clean_team_name, TeamChars) \/ Len(clean_team_name) < TeamMinLength
        THEN Out(ErrorResponse(<<"Invalid team name. Team names must be 3-20 characters, letters and numbers only.">>, 400),
                 cache, "none")
        ELSE IF ~disable_caching /\ hit # {} /\ Fresh(clock, cached.time)
        THEN Out(TeamPage(cached.data), cache, "cache")
        ELSE IF ~team_stats_obj.ok
        THEN Out(ErrorResponse(<<"Error loading team statistics. Please try again later.">>, 500),
                 cache, read)
        ELSE Out(TeamPage(team_stats_obj.value), CleanOldEntries(stored), read)

(***************************************************************************)
(* Two requests for team pages in flight at once, run in either order      *)
(* while the clock advances and the sheet gains a row.  arg lists the      *)
(* requests and ret what each got, None until it has run.                  *)
(***************************************************************************)
MaxTicks == 3      \* half minutes the clock advances

Digits == <<"0", "1", "2", "3", "4", "5", "6", "7", "8", "9">>

\* the name of the n-th team that filled the cache: a01, a02, ...
FillerTeam(n) == <<"a", Digits[(n \div 10) + 1], Digits[(n % 10) + 1]>>

\* the team a request may name while the cache is small: a team as stored,
\* the same with capitals and blanks around it, another team, and two names
\* that are no team names
RequestNames ==
    {GoodTeam, <<" ", "A", "b", "1", " ">>, <<"a", "b", "2">>,
     <<"a", "b">>, <<"a", "<", "1", "!">>}

\* and while it is nearly full: the next two new teams and the first filler
FillerRequestNames ==
    {FillerTeam(CacheLimit + 1), FillerTeam(CacheLimit + 2), FillerTeam(1)}

\* the requests in flight
Workload(names) == {<<[team_name |-> a], [team_name |-> b]>> : a \in names, b \in names}

\* a row of the sheet as the service returns it
SheetRowOf(team, cell) == <<GoodName, team, cell>>

\* rows the sheet may gain: members of GoodTeam (one written in capitals),
\* one of them with a Top Type cell that is no number
NewRows ==
    {SheetRowOf(GoodTeam, <<"1">>), SheetRowOf(<<"A", "B", "1">>, <<"9">>),
     SheetRowOf(GoodTeam, <<"a">>)}

\* the sheets a behaviour may start with: empty, without a Team column, and
\* with members of two teams
StartSheets ==
    {<<>>,
     <<<<"Name", TopTypeColumn>>, <<GoodName, <<"2">>>>>>,
     <<SheetHeaders, SheetRowOf(GoodTeam, <<"2">>), SheetRowOf(<<"a", "b", "2">>, <<"5">>)>>}

\* the cache after the pages of the first n filler teams were served, none
\* of them with a row in the sheet: the first half at time 0, the others
\* half a minute later
FilledCache(n) ==
    [i \in 1..n |->
        [key |-> CacheKey(FillerTeam(i)),
         data |-> EmptyTeamStats(FillerTeam(i)).value,
         time |-> IF 2 * i <= n THEN 0 ELSE ClockStep]]

\* the same after the page of the first team was asked for again a minute
\* after the start: its entry keeps its place and has the newest time
RefreshedCache(n) ==
    [FilledCache(n) EXCEPT ![1].time = 2 * ClockStep]

InitCache ==
    /\ bank = <<>>
    /\ op = "team_stats"
    /\ ret = <<None, None>>
    /\ \/ /\ settings \in [disable_caching : DisableCachingValues]
          /\ sheet \in StartSheets
          /\ team_cache = <<>>
          /\ now = 0
          /\ arg \in Workload(RequestNames)
       \/ /\ settings = [disable_caching |-> FALSE]
          /\ sheet = <<SheetHeaders>>
          /\ arg \in Workload(FillerRequestNames)
          /\ \E n \in {CacheLimit - 1, CacheLimit} :
                \/ team_cache = FilledCache(n) /\ now = ClockStep
                \/ team_cache = RefreshedCache(n) /\ now = 2 * ClockStep

\* the handler runs for a request in flight, whichever comes first
TeamStatsRun ==
    /\ op = "team_stats"
    /\ \E id \in DOMAIN arg, service \in ServiceOutcomes :
          /\ ret[id] = None
          /\ LET out == TeamStatsHandler(arg[id].team_name, team_cache, now,
                                         settings.disable_caching, sheet, service)
             IN  /\ ret' = [ret EXCEPT ![id] =
                              Some([response |-> out.response,
                                    source |-> out.source, at |-> now])]
                 /\ team_cache' = out.team_cache
    /\ UNCHANGED <<bank, op, arg, sheet, now, settings>>

\* datetime.now() moves on
Tick ==
    /\ op = "team_stats"
    /\ now < MaxTicks * ClockStep
    /\ now' = now + ClockStep
    /\ UNCHANGED <<bank, op, arg, ret, sheet, team_cache, settings>>

\* a row is appended to the sheet
SheetGrows ==
    /\ op = "team_stats"
    /\ sheet \in StartSheets \ {<<>>}
    /\ \E row \in NewRows : sheet' = Append(sheet, row)
    /\ UNCHANGED <<bank, op, arg, ret, team_cache, now, settings>>

NextCache == TeamStatsRun \/ Tick \/ SheetGrows

SpecCache == InitCache /\ [][NextCache]_vars

(***************************************************************************)
(* Properties of the team page and its cache (SpecCache).                  *)
(***************************************************************************)
CachingEnabled == ~settings.disable_caching

\* the name and the cache key request id works with
CleanNameOf(id) == CleanTeamName(arg[id].team_name)
KeyOf(id) == CacheKey(CleanNameOf(id))

ValidTeamName(name) == ReMatchPlus(name, TeamChars) /\ Len(name) >= TeamMinLength

Finished(id) == ret[id] # None
Outcome(id) == The(ret[id])
IsPage(id) == Finished(id) /\ Outcome(id).response.kind = "page"

\* request id runs in this step
Runs(id) == ret[id] = None /\ ret'[id] # None

\* the entries a cache holds under a key
EntriesAt(cache, key) == {cache[i] : i \in {j \in DOMAIN cache : cache[j].key = key}}

\* the rows of the sheet that belong to the team, by the Team column
TeamRowsInSheet(name) ==
    IF sheet = <<>> \/ "Team" \notin Range(sheet[1]) THEN {}
    ELSE {i \in 2..Len(sheet) : Lower(sheet[i][2]) = name}

C24_WitnessServed ==
    /\ CachingEnabled
    /\ CleanNameOf(1) = CleanNameOf(2)
    /\ IsPage(1) /\ Outcome(1).at = 0 /\ Outcome(1).source = "rows"
    /\ IsPage(2) /\ Outcome(2).at = ClockStep /\ Outcome(2).source = "cache"
    /\ Len(sheet) = 4
    /\ Outcome(2).response.team_stats.total_members = 1

=============================================================================
